---- MODULE Spec2Model ----
(***************************************************************************)
(* Model of website-icon-extract (src/src/lib.rs): ImageLink::from_website *)
(* fetches a page, scans its markup for icon references, appends           *)
(* "/favicon.ico", joins every reference against the base url and probes   *)
(* every joined url with get_pixel_size.                                   *)
(*                                                                         *)
(* Strings are sequences of one-character strings, so that to_lowercase,   *)
(* starts_with, local_name and Url::join are computed, not assumed.        *)
(***************************************************************************)
EXTENDS Integers, Sequences, FiniteSets, TLC

\* Bound on the number of events the reader delivers before end of input.
MaxEvents == 2

----------------------------------------------------------------------------
\* String literals of the source
S_meta == <<"m","e","t","a">>
S_link == <<"l","i","n","k">>
S_name == <<"n","a","m","e">>
S_content == <<"c","o","n","t","e","n","t">>
S_property == <<"p","r","o","p","e","r","t","y">>
S_rel == <<"r","e","l">>
S_href == <<"h","r","e","f">>
K_TileImage == <<"m","s","a","p","p","l","i","c","a","t","i","o","n","-","T","i","l","e","I","m","a","g","e">>
K_square70 == <<"m","s","a","p","p","l","i","c","a","t","i","o","n","-","s","q","u","a","r","e","7","0","x","7","0","l","o","g","o">>
K_square150 == <<"m","s","a","p","p","l","i","c","a","t","i","o","n","-","s","q","u","a","r","e","1","5","0","x","1","5","0","l","o","g","o">>
K_square310 == <<"m","s","a","p","p","l","i","c","a","t","i","o","n","-","s","q","u","a","r","e","3","1","0","x","3","1","0","l","o","g","o">>
K_wide310 == <<"m","s","a","p","p","l","i","c","a","t","i","o","n","-","w","i","d","e","3","1","0","x","1","5","0","l","o","g","o">>
K_ogimage == <<"o","g",":","i","m","a","g","e">>
K_apple == <<"a","p","p","l","e","-","t","o","u","c","h","-","i","c","o","n">>
K_shortcut == <<"s","h","o","r","t","c","u","t"," ","i","c","o","n">>
K_icon == <<"i","c","o","n">>
S_favicon == <<"/","f","a","v","i","c","o","n",".","i","c","o">>
S_texthtml == <<"t","e","x","t","/","h","t","m","l">>
S_http == <<"h","t","t","p",":","/","/">>

\* Keyword tables of check_start_elem
meta_name_attrs == <<K_TileImage, K_square70, K_square150, K_square310, K_wide310>>
meta_property_attrs == <<K_ogimage>>
link_rel_attrs == <<K_apple, K_shortcut, K_icon>>

----------------------------------------------------------------------------
\* Input alphabet: strings that occur in the pages, headers and urls drawn
U_LINK == <<"L","I","N","K">>
U_REL == <<"R","E","L">>
U_ICON == <<"I","C","O","N">>
U_HREF == <<"H","R","E","F">>
V_Apng == <<"/","A",".","p","n","g">>
V_relfav == <<"f","a","v","i","c","o","n",".","i","c","o">>
V_nohost == <<"h","t","t","p",":","/","/">>
V_ShortcutIcon == <<"S","h","o","r","t","c","u","t"," ","I","c","o","n">>
V_OGIMAGE == <<"O","G",":","I","M","A","G","E">>
V_stylesheet == <<"s","t","y","l","e","s","h","e","e","t">>
S_a == <<"a">>
CT_html_utf8 == <<"t","e","x","t","/","h","t","m","l",";"," ","c","h","a","r","s","e","t","=","u","t","f","-","8">>
CT_json == <<"a","p","p","l","i","c","a","t","i","o","n","/","j","s","o","n">>
CT_HTML_UP == <<"T","E","X","T","/","H","T","M","L">>
B_root == <<"h","t","t","p",":","/","/","h","/">>
B_page == <<"h","t","t","p",":","/","/","h","/","d","/","p">>
UpperAlpha == <<"A","B","C","D","E","F","G","H","I","J","K","L","M","N","O","P","Q","R","S","T","U","V","W","X","Y","Z">>
LowerAlpha == <<"a","b","c","d","e","f","g","h","i","j","k","l","m","n","o","p","q","r","s","t","u","v","w","x","y","z">>

----------------------------------------------------------------------------
\* String functions of the standard library, on the ASCII subset

LowerChar(c) ==
    IF \E k \in 1..Len(UpperAlpha) : UpperAlpha[k] = c
    THEN LowerAlpha[CHOOSE k \in 1..Len(UpperAlpha) : UpperAlpha[k] = c]
    ELSE c

\* String::to_lowercase
to_lowercase(s) == [i \in 1..Len(s) |-> LowerChar(s[i])]

\* str::starts_with
starts_with(s, p) ==
    /\ Len(s) >= Len(p)
    /\ \A i \in 1..Len(p) : s[i] = p[i]

\* Vec::contains
contains(v, x) == \E i \in 1..Len(v) : v[i] = x

\* QName::local_name of quick_xml: the part after the first ':' if any
local_name(n) ==
    IF \E i \in 1..Len(n) : n[i] = ":"
    THEN LET i == CHOOSE k \in 1..Len(n) :
                     n[k] = ":" /\ \A m \in 1..(k-1) : n[m] # ":"
         IN  SubSeq(n, i + 1, Len(n))
    ELSE n

RECURSIVE Flatten(_)
Flatten(ss) == IF ss = <<>> THEN <<>> ELSE Head(ss) \o Flatten(Tail(ss))

----------------------------------------------------------------------------
\* Markup scanner

\* attr_to_hash: attributes that failed to parse are dropped, keys are the
\* lowercased local names, values are kept raw; collecting into the HashMap
\* keeps the last value of a key.  (The reader is built from a &str, so
\* decoding a key or a value does not fail.)
attr_to_hash(attrs) ==
    LET good    == SelectSeq(attrs, LAMBDA x : x.ok)
        keyOf(x) == to_lowercase(local_name(x.key))
        keys    == { keyOf(good[i]) : i \in 1..Len(good) }
        last(k) == CHOOSE i \in 1..Len(good) :
                      /\ keyOf(good[i]) = k
                      /\ \A j \in (i+1)..Len(good) : keyOf(good[j]) # k
    IN  [k \in keys |-> good[last(k)].value]

\* extract
extract(attrs_hashed, names, key_name, content) ==
    IF key_name \in DOMAIN attrs_hashed /\ content \in DOMAIN attrs_hashed
    THEN LET name == to_lowercase(attrs_hashed[key_name])
             cont == to_lowercase(attrs_hashed[content])
         IN  IF contains(names, name) THEN <<cont>> ELSE <<>>
    ELSE <<>>

\* check_start_elem
check_start_elem(e) ==
    LET n == local_name(e.name) IN
    IF n = S_meta
    THEN LET attrs_hashed == attr_to_hash(e.attrs)
         IN  extract(attrs_hashed, meta_name_attrs, S_name, S_content)
             \o extract(attrs_hashed, meta_property_attrs, S_property, S_content)
    ELSE IF n = S_link
    THEN extract(attr_to_hash(e.attrs), link_rel_attrs, S_rel, S_href)
    ELSE <<>>

----------------------------------------------------------------------------
\* Urls (crate url, restricted to http urls with a non-empty host):
\* a parsed url is [ok, host, path]; a failed parse is UrlErr.
UrlErr == [ok |-> FALSE, host |-> <<>>, path |-> <<>>]

\* Url::parse
UrlParse(s) ==
    IF ~ starts_with(s, S_http) THEN UrlErr
    ELSE LET rest == SubSeq(s, Len(S_http) + 1, Len(s))
             cut  == IF \E i \in 1..Len(rest) : rest[i] = "/"
                     THEN CHOOSE i \in 1..Len(rest) :
                            rest[i] = "/" /\ \A m \in 1..(i-1) : rest[m] # "/"
                     ELSE Len(rest) + 1
             host == SubSeq(rest, 1, cut - 1)
             path == SubSeq(rest, cut, Len(rest))
         IN  IF host = <<>> THEN UrlErr
             ELSE [ok |-> TRUE, host |-> to_lowercase(host),
                   path |-> IF path = <<>> THEN <<"/">> ELSE path]

\* Url::join: an absolute reference passes through, a reference starting
\* with '/' replaces the path, any other replaces the last path segment.
UrlJoin(base, ref) ==
    IF starts_with(ref, S_http) THEN UrlParse(ref)
    ELSE IF ref = <<>> THEN base
    ELSE IF ref[1] = "/" THEN [base EXCEPT !.path = ref]
    ELSE LET p    == base.path
             last == CHOOSE i \in 1..Len(p) :
                        p[i] = "/" /\ \A m \in (i+1)..Len(p) : p[m] # "/"
         IN  [base EXCEPT !.path = SubSeq(p, 1, last) \o ref]

----------------------------------------------------------------------------
\* Image sniffing (crate imagesize) on the downloaded prefix: the prefix is
\* abstracted to its magic bytes and the dimensions its header declares.
PngData  == [magic |-> "png",  width |-> 16, height |-> 16]
HtmlData == [magic |-> "none", width |-> 0,  height |-> 0]
Bodies   == {PngData, HtmlData}

\* imagesize::blob_size
blob_size(data) ==
    IF data.magic = "none" THEN [ok |-> FALSE, width |-> 0, height |-> 0]
    ELSE [ok |-> TRUE, width |-> data.width, height |-> data.height]

\* imagesize::image_type
image_type(data) ==
    IF data.magic = "none" THEN [ok |-> FALSE, t |-> "none"]
    ELSE [ok |-> TRUE, t |-> data.magic]

\* What the server (or the network) answers to a probe request
SendFailed == [sent |-> FALSE, status |-> 0, readOk |-> FALSE, data |-> HtmlData]
ProbeResponses ==
    {SendFailed}
    \cup {[sent |-> TRUE, status |-> 200, readOk |-> FALSE, data |-> HtmlData]}
    \cup {[sent |-> TRUE, status |-> st, readOk |-> TRUE, data |-> d] :
             st \in {200, 404}, d \in Bodies}

\* get_pixel_size, from the response on: send()?, bytes()?, blob_size?,
\* image_type?.  The status of the response is not looked at.
get_pixel_size(resp) ==
    IF ~ resp.sent THEN [ok |-> FALSE, why |-> "send"]
    ELSE IF ~ resp.readOk THEN [ok |-> FALSE, why |-> "bytes"]
    ELSE IF ~ blob_size(resp.data).ok THEN [ok |-> FALSE, why |-> "blob_size"]
    ELSE IF ~ image_type(resp.data).ok THEN [ok |-> FALSE, why |-> "image_type"]
    ELSE [ok |-> TRUE, why |-> "none"]

\* The ImageLink built by ImageLink::new
ImageLink(url, data) ==
    [url |-> url, image_type |-> image_type(data).t,
     width |-> blob_size(data).width, height |-> blob_size(data).height]

----------------------------------------------------------------------------
\* Inputs

Attr(k, v)  == [ok |-> TRUE,  key |-> k, value |-> v]
BadAttr     == [ok |-> FALSE, key |-> <<>>, value |-> <<>>]
Elem(n, as) == [name |-> n, attrs |-> as]

Elements == {
    Elem(S_link, <<Attr(S_rel, K_icon), Attr(S_href, S_favicon)>>),
    Elem(U_LINK, <<Attr(U_REL, U_ICON), Attr(U_HREF, V_Apng)>>),
    Elem(S_link, <<Attr(U_REL, V_ShortcutIcon), Attr(S_href, V_Apng)>>),
    Elem(S_link, <<Attr(S_rel, K_apple), BadAttr, Attr(S_href, V_relfav)>>),
    Elem(S_link, <<Attr(S_rel, V_stylesheet), Attr(S_href, V_Apng)>>),
    Elem(S_link, <<Attr(S_rel, K_icon)>>),
    Elem(S_meta, <<Attr(S_name, K_TileImage), Attr(S_content, V_Apng)>>),
    Elem(S_meta, <<Attr(S_name, K_square70), Attr(S_property, K_ogimage),
                   Attr(S_content, V_nohost)>>),
    Elem(S_meta, <<Attr(S_property, V_OGIMAGE), Attr(S_content, V_relfav)>>),
    Elem(S_meta, <<Attr(S_name, K_wide310), Attr(S_content, S_favicon)>>),
    Elem(S_a,    <<Attr(S_href, V_Apng)>>) }

\* the elements that also occur in self-closing form
EmptyElements == {
    Elem(S_link, <<Attr(S_rel, K_icon), Attr(S_href, S_favicon)>>),
    Elem(S_meta, <<Attr(S_name, K_wide310), Attr(S_content, S_favicon)>>) }

NoElem == Elem(<<>>, <<>>)
Ev(k, e) == [kind |-> k, elem |-> e]
Events ==
    {Ev("Start", e) : e \in Elements}
    \cup {Ev("Empty", e) : e \in EmptyElements}
    \cup {Ev(k, NoElem) : k \in {"End", "Text", "Eof", "Err", "Other"}}

\* Content-Type header of the page response: absent, not a visible-ASCII
\* string (to_str fails), or a string
NoHeader    == [present |-> FALSE, valid |-> FALSE, str |-> <<>>]
BadHeader   == [present |-> TRUE,  valid |-> FALSE, str |-> <<>>]
Header(s)   == [present |-> TRUE,  valid |-> TRUE,  str |-> s]
ContentTypes ==
    {NoHeader, BadHeader, Header(S_texthtml), Header(CT_html_utf8),
     Header(CT_json), Header(CT_HTML_UP)}

BaseInputs == {B_root, B_page, V_nohost, S_favicon}

----------------------------------------------------------------------------
VARIABLES
    pc,            \* position in from_website
    base_url,      \* the parsed base url
    content_type,  \* Content-Type header of the page response
    scanned,       \* the page body was read and handed to analyze_content
    consumed,      \* events read so far by the loop of analyze_content
    list,          \* Vec<String> of candidates
    idx,           \* position of the iterator over list
    inflight,      \* candidates whose probe request is awaiting its answer
    probes,        \* the probe requests issued, with their outcome
    out,           \* the ImageLinks collected
    fetch,         \* how the page fetch ended
    result         \* what from_website returned

vars == <<pc, base_url, content_type, scanned, consumed, list, idx, inflight,
          probes, out, fetch, result>>

Init ==
    /\ pc = "Start"
    /\ base_url = UrlErr
    /\ content_type = NoHeader
    /\ scanned = FALSE
    /\ consumed = <<>>
    /\ list = <<>>
    /\ idx = 1
    /\ inflight = {}
    /\ probes = <<>>
    /\ out = <<>>
    /\ fetch = "none"
    /\ result = "none"

\* An early return through the ? operator
Fail(why) ==
    /\ pc' = "Done"
    /\ fetch' = why
    /\ result' = "Err"

\* Url::parse(base_url.as_ref())?
ParseBase(s) ==
    /\ pc = "Start"
    /\ IF UrlParse(s).ok
       THEN /\ base_url' = UrlParse(s)
            /\ pc' = "Send"
            /\ UNCHANGED <<fetch, result>>
       ELSE /\ Fail("parse_err")
            /\ UNCHANGED base_url
    /\ UNCHANGED <<content_type, scanned, consumed, list, idx, inflight,
                   probes, out>>

\* SendPage with the failure of send() swallowed instead of returned
SendPage_Swallow(sent, ct) ==
    /\ pc = "Send"
    /\ IF sent
       THEN /\ content_type' = ct
            /\ pc' = "Location"
            /\ UNCHANGED <<fetch, result>>
       ELSE /\ fetch' = "send_err"
            /\ pc' = "Scanned"
            /\ UNCHANGED <<content_type, result>>
    /\ UNCHANGED <<base_url, scanned, consumed, list, idx, inflight, probes,
                   out>>

\* Client::new().get(base_url)...send()?
SendPage(sent, ct) ==
    /\ pc = "Send"
    /\ IF sent
       THEN /\ content_type' = ct
            /\ pc' = "Location"
            /\ UNCHANGED <<fetch, result>>
       ELSE /\ Fail("send_err")
            /\ UNCHANGED content_type
    /\ UNCHANGED <<base_url, scanned, consumed, list, idx, inflight, probes,
                   out>>

IsHtml(ct) ==
    /\ ct.present
    /\ starts_with(IF ct.valid THEN ct.str ELSE <<>>, S_texthtml)

\* analyze_location, up to the call of analyze_content
analyze_location(readOk) ==
    /\ pc = "Location"
    /\ IF IsHtml(content_type)
       THEN IF readOk
            THEN /\ pc' = "Scan"
                 /\ scanned' = TRUE
                 /\ fetch' = "ok"
                 /\ UNCHANGED <<list, result>>
            ELSE /\ Fail("read_err")
                 /\ UNCHANGED <<list, scanned>>
       ELSE /\ pc' = "Scanned"
            /\ list' = <<>>
            /\ fetch' = "ok"
            /\ UNCHANGED <<scanned, result>>
    /\ UNCHANGED <<base_url, content_type, consumed, idx, inflight, probes,
                   out>>

\* analyze_content with the break of the Err arm not commented out
analyze_content_Break(ev) ==
    /\ pc = "Scan"
    /\ ev.kind = "Eof" \/ Len(consumed) < MaxEvents
    /\ consumed' = Append(consumed, ev)
    /\ IF ev.kind \in {"Start", "Empty"}
       THEN list' = list \o check_start_elem(ev.elem)
       ELSE UNCHANGED list
    /\ pc' = IF ev.kind \in {"Eof", "Err"} THEN "Scanned" ELSE "Scan"
    /\ UNCHANGED <<base_url, content_type, scanned, idx, inflight, probes,
                   out, fetch, result>>

\* One turn of the loop of analyze_content on the event the reader delivers
analyze_content(ev) ==
    /\ pc = "Scan"
    /\ ev.kind = "Eof" \/ Len(consumed) < MaxEvents
    /\ consumed' = Append(consumed, ev)
    /\ IF ev.kind \in {"Start", "Empty"}
       THEN list' = list \o check_start_elem(ev.elem)
       ELSE UNCHANGED list
    /\ pc' = IF ev.kind = "Eof" THEN "Scanned" ELSE "Scan"
    /\ UNCHANGED <<base_url, content_type, scanned, idx, inflight, probes,
                   out, fetch, result>>

\* PushFavicon that adds the fallback only to a scanned page
PushFavicon_OnlyHtml ==
    /\ pc = "Scanned"
    /\ list' = IF scanned THEN Append(list, S_favicon) ELSE list
    /\ consumed' = <<>>
    /\ idx' = 1
    /\ pc' = "Probe"
    /\ UNCHANGED <<base_url, content_type, scanned, inflight, probes, out,
                   fetch, result>>

\* list.push(String::from("/favicon.ico"))
PushFavicon ==
    /\ pc = "Scanned"
    /\ list' = Append(list, S_favicon)
    /\ consumed' = <<>>
    /\ idx' = 1
    /\ pc' = "Probe"
    /\ UNCHANGED <<base_url, content_type, scanned, inflight, probes, out,
                   fetch, result>>

\* first filter_map: base_url.join(..).ok() is None, the candidate is dropped
ResolveSkip ==
    /\ pc = "Probe"
    /\ idx <= Len(list)
    /\ inflight = {}
    /\ ~ UrlJoin(base_url, list[idx]).ok
    /\ idx' = idx + 1
    /\ UNCHANGED <<pc, base_url, content_type, scanned, consumed, list,
                   inflight, probes, out, fetch, result>>

\* StartProbe that does not wait for the answer of the previous request
StartProbe_Concurrent(j) ==
    /\ pc = "Probe"
    /\ j >= idx
    /\ j \notin inflight
    /\ \A k \in 1..Len(probes) : probes[k].cand # j
    /\ j <= Len(list)
    /\ UrlJoin(base_url, list[j]).ok
    /\ inflight' = inflight \cup {j}
    /\ probes' = Append(probes, [cand |-> j, url |-> UrlJoin(base_url, list[j]),
                                 state |-> "inflight", status |-> 0])
    /\ UNCHANGED <<pc, base_url, content_type, scanned, consumed, list, idx,
                   out, fetch, result>>

\* second filter_map: ImageLink::new sends the request of get_pixel_size
\* for candidate j; the blocking client returns only with the answer
StartProbe(j) ==
    /\ pc = "Probe"
    /\ j = idx
    /\ inflight = {}
    /\ j <= Len(list)
    /\ UrlJoin(base_url, list[j]).ok
    /\ inflight' = inflight \cup {j}
    /\ probes' = Append(probes, [cand |-> j, url |-> UrlJoin(base_url, list[j]),
                                 state |-> "inflight", status |-> 0])
    /\ UNCHANGED <<pc, base_url, content_type, scanned, consumed, list, idx,
                   out, fetch, result>>

\* FinishProbe with ImageLink::new(..)? in place of .ok(): a failed probe
\* ends from_website with its error
FinishProbe_Propagate(j, resp) ==
    /\ pc = "Probe"
    /\ j \in inflight
    /\ LET k == CHOOSE i \in 1..Len(probes) :
                    probes[i].cand = j /\ probes[i].state = "inflight"
           r == get_pixel_size(resp)
       IN  /\ probes' = [probes EXCEPT ![k].state = IF r.ok THEN "ok" ELSE r.why,
                                       ![k].status = resp.status]
           /\ out' = IF r.ok THEN Append(out, ImageLink(probes[k].url, resp.data))
                     ELSE out
           /\ pc' = IF r.ok THEN pc ELSE "Done"
           /\ result' = IF r.ok THEN result ELSE "Err"
    /\ inflight' = inflight \ {j}
    /\ idx' = idx + 1
    /\ UNCHANGED <<base_url, content_type, scanned, consumed, list, fetch>>

\* the answer arrives (or the timeout strikes): get_pixel_size returns,
\* ImageLink::new(..).ok() keeps the link or drops the candidate
FinishProbe(j, resp) ==
    /\ pc = "Probe"
    /\ j \in inflight
    /\ LET k == CHOOSE i \in 1..Len(probes) :
                    probes[i].cand = j /\ probes[i].state = "inflight"
           r == get_pixel_size(resp)
       IN  /\ probes' = [probes EXCEPT ![k].state = IF r.ok THEN "ok" ELSE r.why,
                                       ![k].status = resp.status]
           /\ out' = IF r.ok THEN Append(out, ImageLink(probes[k].url, resp.data))
                     ELSE out
    /\ inflight' = inflight \ {j}
    /\ idx' = idx + 1
    /\ UNCHANGED <<pc, base_url, content_type, scanned, consumed, list,
                   fetch, result>>

\* collect() and Ok(..)
Collect ==
    /\ pc = "Probe"
    /\ idx > Len(list)
    /\ inflight = {}
    /\ pc' = "Done"
    /\ result' = "Ok"
    /\ UNCHANGED <<base_url, content_type, scanned, consumed, list, idx,
                   inflight, probes, out, fetch>>

Next ==
    \/ \E s \in BaseInputs : ParseBase(s)
    \/ \E sent \in BOOLEAN, ct \in ContentTypes : SendPage(sent, ct)
    \/ \E readOk \in BOOLEAN : analyze_location(readOk)
    \/ \E ev \in Events : analyze_content(ev)
    \/ PushFavicon
    \/ ResolveSkip
    \/ \E j \in 1..Len(list) : StartProbe(j)
    \/ \E j \in 1..Len(list), resp \in ProbeResponses : FinishProbe(j, resp)
    \/ Collect

Spec == Init /\ [][Next]_vars

TypeOK ==
    /\ pc \in {"Start", "Send", "Location", "Scan", "Scanned", "Probe", "Done"}
    /\ result \in {"none", "Ok", "Err"}
    /\ fetch \in {"none", "ok", "parse_err", "send_err", "read_err"}
    /\ idx \in 1..(Len(list) + 1)
    /\ inflight \subseteq 1..Len(list)

----------------------------------------------------------------------------
\* Helpers of the properties

IsElemEvent(ev) == ev.kind \in {"Start", "Empty"}

\* the elements the loop handed to check_start_elem, in order
Inspected ==
    LET evs == SelectSeq(consumed, IsElemEvent)
    IN  [i \in 1..Len(evs) |-> evs[i].elem]

InScan == scanned /\ pc \in {"Scan", "Scanned"}

\* the same element written in lowercase: element name, attribute names
\* and the values of the attributes the keywords are matched against
CaseFold(e) ==
    [name  |-> to_lowercase(e.name),
     attrs |-> [i \in 1..Len(e.attrs) |->
                  [e.attrs[i] EXCEPT
                     !.key = to_lowercase(@),
                     !.value = IF to_lowercase(e.attrs[i].key)
                                   \in {S_name, S_property, S_rel}
                               THEN to_lowercase(@) ELSE @]]]

\* the candidates of list that join to an url, joined, in order
Resolved ==
    LET joined == [i \in 1..Len(list) |-> UrlJoin(base_url, list[i])]
    IN  SelectSeq(joined, LAMBDA u : u.ok)

ProbedUrls == [i \in 1..Len(probes) |-> probes[i].url]

OkProbes == SelectSeq(probes, LAMBDA p : p.state = "ok")

----------------------------------------------------------------------------
\* C1: every url is probed at most once and occurs at most once in the
\* returned list, also when several candidates resolve to it.
C1_Dedup ==
    /\ \A i, j \in 1..Len(probes) : probes[i].url = probes[j].url => i = j
    /\ \A i, j \in 1..Len(out) : out[i].url = out[j].url => i = j

\* C2: the candidates collected from the elements read are those their
\* all-lowercase spelling yields.
C2_CaseInsensitive ==
    InScan =>
        list = Flatten([i \in 1..Len(Inspected) |->
                           check_start_elem(CaseFold(Inspected[i]))])

\* C3: every candidate collected is, character for character, the value of
\* a href or content attribute of an element read.
C3_PreservesCase ==
    InScan =>
        \A c \in 1..Len(list) :
            \E i \in 1..Len(Inspected) :
                \E a \in 1..Len(Inspected[i].attrs) :
                    LET x == Inspected[i].attrs[a]
                    IN  /\ x.ok
                        /\ to_lowercase(local_name(x.key)) \in {S_href, S_content}
                        /\ x.value = list[c]

\* C4: a failed page fetch (url parse, send, body read) ends from_website
\* with an error, no list, and no probe request issued.
C4_PageFetchFailure ==
    /\ fetch \in {"parse_err", "send_err", "read_err"} =>
           /\ pc = "Done"
           /\ result = "Err"
           /\ probes = <<>>
           /\ inflight = {}
           /\ out = <<>>
    /\ (probes # <<>> \/ inflight # {}) => fetch = "ok"

C4_Witness ==
    /\ pc = "Done"
    /\ fetch = "read_err"
    /\ result = "Err"

\* C5: once the page is fetched and read, from_website returns Ok: every
\* candidate that joins to an url is probed, in order, whatever happened to
\* the candidates before it, the list returned holds exactly the probes
\* that succeeded, and no error of a candidate is returned.
C5_CandidateErrorsSwallowed ==
    fetch = "ok" =>
        /\ result # "Err"
        /\ Len(out) = Len(OkProbes)
        /\ \A i \in 1..Len(out) : out[i].url = OkProbes[i].url
        /\ pc = "Done" =>
              /\ result = "Ok"
              /\ ProbedUrls = Resolved
              /\ \A i \in 1..Len(probes) : probes[i].state # "inflight"

C5_Witness ==
    /\ pc = "Done"
    /\ result = "Ok"
    /\ Len(Resolved) < Len(list)
    /\ \E i, j \in 1..Len(probes) :
          /\ i < j
          /\ probes[i].state \in {"send", "bytes", "blob_size"}
          /\ probes[j].state = "ok"

\* C6: after a successful page fetch the candidate list ends with
\* "/favicon.ico" whatever the Content-Type, and that url is probed; a
\* page that is not text/html-prefixed (or has no Content-Type) is not
\* scanned and contributes no candidate.
C6_FaviconUnconditional ==
    /\ (fetch = "ok" /\ ~ IsHtml(content_type)) =>
          /\ ~ scanned
          /\ consumed = <<>>
          /\ pc = "Scanned" => list = <<>>
          /\ pc \in {"Probe", "Done"} => list = <<S_favicon>>
    /\ (fetch = "ok" /\ pc \in {"Probe", "Done"}) =>
          /\ list # <<>>
          /\ list[Len(list)] = S_favicon
          /\ pc = "Done" =>
                \E i \in 1..Len(probes) :
                    /\ probes[i].cand = Len(list)
                    /\ probes[i].url = UrlJoin(base_url, S_favicon)

C6_Witness ==
    /\ pc = "Done"
    /\ content_type = Header(CT_json)
    /\ list = <<S_favicon>>
    /\ Len(probes) = 1

\* C7: a meta element whose name is one of the keywords of
\* meta_name_attrs, or whose property is og:image, in any letter case, and
\* that has a content, yields a candidate for that content; so does a link
\* element whose rel is one of link_rel_attrs and that has a href.
Matchable(e, tag, names, key_name, content) ==
    LET h == attr_to_hash(e.attrs)
    IN  (/\ e.name = tag
         /\ key_name \in DOMAIN h
         /\ content \in DOMAIN h
         /\ \E k \in 1..Len(names) :
                to_lowercase(h[key_name]) = to_lowercase(names[k]))
        => \E c \in 1..Len(list) :
                to_lowercase(list[c]) = to_lowercase(h[content])

C7_KeywordsMatchable ==
    InScan =>
        \A i \in 1..Len(Inspected) :
            /\ Matchable(Inspected[i], S_meta, meta_name_attrs, S_name, S_content)
            /\ Matchable(Inspected[i], S_meta, meta_property_attrs, S_property, S_content)
            /\ Matchable(Inspected[i], S_link, link_rel_attrs, S_rel, S_href)

\* C8: a probe answered with a status outside 200..299 yields no ImageLink.
C8_Non2xxFails ==
    \A i \in 1..Len(probes) :
        probes[i].state = "ok" => probes[i].status \in 200..299

\* C9 as stated: the start of a probe never waits for another probe; a
\* candidate still to be probed can be probed while a request is in flight.
C9_ProbesIndependent ==
    \A j \in 1..Len(list) :
        (/\ pc = "Probe"
         /\ inflight # {}
         /\ j \notin inflight
         /\ j >= idx
         /\ UrlJoin(base_url, list[j]).ok)
        => ENABLED StartProbe(j)

\* C9 as amended: probes run one at a time in the order of the candidates;
\* a request is sent only when every earlier probe has ended, and a probe
\* that ended in a timeout or any other failure is followed by the probes
\* of the remaining candidates.
C9_ProbesSequential ==
    /\ Cardinality(inflight) <= 1
    /\ \A k \in 1..Len(probes) :
          /\ probes[k].state = "inflight" => (k = Len(probes) /\ probes[k].cand = idx)
          /\ \A m \in 1..(k-1) : probes[m].cand < probes[k].cand
    /\ \A j \in inflight : \E k \in 1..Len(probes) :
          probes[k].cand = j /\ probes[k].state = "inflight"
    /\ (pc = "Done" /\ fetch = "ok") => Len(probes) = Len(Resolved)

C9_Witness ==
    /\ inflight # {}
    /\ \E i, j \in 1..Len(probes) :
          /\ i < j
          /\ probes[i].state = "send"
          /\ probes[j].state = "inflight"
    /\ \E m \in 1..Len(list) : m > idx /\ UrlJoin(base_url, list[m]).ok

\* C10: the scan never fails and never stops on a reader error; every
\* element delivered as a Start or Empty event, before or after errors,
\* has contributed its candidates, and the loop is left only on Eof.
C10_MalformedNeverAborts ==
    InScan =>
        /\ result # "Err"
        /\ list = Flatten([i \in 1..Len(Inspected) |->
                              check_start_elem(Inspected[i])])
        /\ \A i \in 1..Len(consumed) :
              consumed[i].kind = "Eof" <=> (pc = "Scanned" /\ i = Len(consumed))
        /\ pc = "Scanned" => consumed # <<>>

C10_Witness ==
    /\ pc = "Scanned"
    /\ scanned
    /\ \E i, j \in 1..Len(consumed) :
          /\ i < j
          /\ consumed[i].kind = "Err"
          /\ IsElemEvent(consumed[j])
          /\ check_start_elem(consumed[j].elem) # <<>>
    /\ list # <<>>

====
